---- MODULE Spec2Model ----
(***************************************************************************)
(* Streamed-response completion scan of the three TeacherTools forms       *)
(* (AgentQuizForm, QuizForm, LessonPlanForm): handleSubmit, its read loop  *)
(* over the fetch body reader, and the post-scan navigate-or-fail policy   *)
(* (Spec, and LiveSpec with the scheduling of its continuations); the      *)
(* server's moderateMessage with parseOllamaResponse over the guard        *)
(* model's outputs (ModSpec); AskController's save-and-moderate sequence   *)
(* after the response promise settles (AskSpec) and its getReqData         *)
(* (ReqSpec); and the TeacherTools dialog (DialogSpec).                    *)
(*                                                                         *)
(* Text is a sequence of symbols.  A symbol stands for a run of characters *)
(* that a chunk boundary may separate from its neighbours: the newline,    *)
(* the literal prefix "data: ", and the text that follows the prefix on a  *)
(* line.  A chunk is any cut of the text the server wrote, so a line can   *)
(* be cut between its prefix and its JSON, or before its newline.          *)
(***************************************************************************)
EXTENDS Integers, Sequences, FiniteSets, TLC

\* ------------------------------------------------------------------ bounds
MaxLines == 2      \* lines the server writes to one response
MaxChunks == 2     \* chunks the transport delivers for one response

Range(q) == {q[i] : i \in 1..Len(q)}

\* ------------------------------------------------------- JavaScript values
Null == "<null>"
Undefined == "<undefined>"

Forms == {"AgentQuizForm", "QuizForm", "LessonPlanForm"}

\* ------------------------------------------------------------ stream text
NL == "\\n"
DataPrefix == "data: "

\* The JSON objects a server sends.  Body gives the fields the forms read
\* from the parsed object (message.conversationId, final, done); Undefined
\* is an absent field.
Bodies == {"{cid:abc}", "{cid:xyz}", "{cid:''}", "{cid:null}", "{final:true}", "{done:true}"}

Body(b) ==
  CASE b = "{cid:abc}"    -> [conversationId |-> "abc",     final |-> FALSE, done |-> FALSE]
    [] b = "{cid:xyz}"    -> [conversationId |-> "xyz",     final |-> FALSE, done |-> FALSE]
    [] b = "{cid:''}"     -> [conversationId |-> "",        final |-> FALSE, done |-> FALSE]
    [] b = "{cid:null}"   -> [conversationId |-> Null,      final |-> FALSE, done |-> FALSE]
    [] b = "{final:true}" -> [conversationId |-> Undefined, final |-> TRUE,  done |-> FALSE]
    [] b = "{done:true}"  -> [conversationId |-> Undefined, final |-> FALSE, done |-> TRUE]

\* The lines a server writes (each is followed by a newline on the wire).
EventLine(b) == <<DataPrefix, b>>
NullLine == <<DataPrefix, "null">>
MalformedLine == <<DataPrefix, "{oops">>
OtherLine == <<"event: message">>
Lines == {EventLine(b) : b \in Bodies} \cup {NullLine, MalformedLine, OtherLine}

\* ------------------------------------------------- per-chunk line handling
\* chunk.split('\n'): the pieces between newlines, the last one included
\* (it is empty when the chunk ends with a newline).
RECURSIVE SplitFrom(_, _, _)
SplitFrom(text, i, cur) ==
  IF i > Len(text) THEN <<cur>>
  ELSE IF text[i] = NL THEN <<cur>> \o SplitFrom(text, i + 1, <<>>)
  ELSE SplitFrom(text, i + 1, Append(cur, text[i]))

Split(chunk) == SplitFrom(chunk, 1, <<>>)

\* line.startsWith('data: ')
StartsWithData(line) == Len(line) > 0 /\ line[1] = DataPrefix

\* line.substring(6)
Substring6(line) == SubSeq(line, 2, Len(line))

\* JSON.parse: an object for the text of an object, null for the literal
\* null, a SyntaxError for anything else (the empty text that follows a
\* prefix cut from its JSON, malformed text).
JSONparse(text) ==
  IF Len(text) = 1 /\ text[1] \in Bodies
    THEN [kind |-> "object", obj |-> Body(text[1])]
  ELSE IF text = <<"null">>
    THEN [kind |-> "null"]
  ELSE [kind |-> "throw"]

\* !conversationId, and the truthiness of parsed.message?.conversationId
Truthy(v) == v \notin {Null, Undefined, ""}

\* Mutant of CaptureAgent: the `conversationId === null` guard is dropped.
CaptureAgentOverwrite(conversationId, parsed) ==
  IF parsed.conversationId # Undefined
    THEN parsed.conversationId
    ELSE conversationId

\* AgentQuizForm: conversationId === null && parsed.message?.conversationId !== undefined
CaptureAgent(conversationId, parsed) ==
  IF conversationId = Null /\ parsed.conversationId # Undefined
    THEN parsed.conversationId
    ELSE conversationId

\* LessonPlanForm: conversationId === null && parsed.message?.conversationId !== undefined
CaptureLesson(conversationId, parsed) ==
  IF conversationId = Null /\ parsed.conversationId # Undefined
    THEN parsed.conversationId
    ELSE conversationId

\* QuizForm: !conversationId && parsed.message?.conversationId
CaptureQuiz(conversationId, parsed) ==
  IF ~Truthy(conversationId) /\ Truthy(parsed.conversationId)
    THEN parsed.conversationId
    ELSE conversationId

Capture(f, conversationId, parsed) ==
  CASE f = "AgentQuizForm"  -> CaptureAgent(conversationId, parsed)
    [] f = "LessonPlanForm" -> CaptureLesson(conversationId, parsed)
    [] f = "QuizForm"       -> CaptureQuiz(conversationId, parsed)

\* Mutant of CompletionSignal: only `final` is tested.
CompletionSignalFinalOnly(parsed) == parsed.final = TRUE

\* parsed.final === true || parsed.done === true
CompletionSignal(parsed) == parsed.final = TRUE \/ parsed.done = TRUE

\* Mutant of ProcessLine: the catch block gives the scan up
\* (isComplete = true) instead of going on with the next line.
ProcessLineStopOnError(f, acc, line) ==
  IF ~StartsWithData(line) THEN acc
  ELSE LET p == JSONparse(Substring6(line)) IN
    IF p.kind # "object" THEN [acc EXCEPT !.isComplete = TRUE]
    ELSE [conversationId |-> Capture(f, acc.conversationId, p.obj),
          isComplete |-> acc.isComplete \/ CompletionSignal(p.obj)]

\* The body of `for (const line of lines)`: acc is the pair of closed-over
\* variables (conversationId, isComplete).  The try block covers the parse
\* and the field reads, so a SyntaxError and the TypeError of reading
\* .message of null both end in `continue`.
ProcessLine(f, acc, line) ==
  IF ~StartsWithData(line) THEN acc
  ELSE LET p == JSONparse(Substring6(line)) IN
    IF p.kind # "object" THEN acc
    ELSE [conversationId |-> Capture(f, acc.conversationId, p.obj),
          isComplete |-> acc.isComplete \/ CompletionSignal(p.obj)]

\* The lines of a chunk that reach JSON.parse, in the order of the loop.
ParsedLines(lines) == SelectSeq(lines, StartsWithData)

\* The for loop has no break: every line of the chunk is visited in order.
RECURSIVE ProcessLines(_, _, _)
ProcessLines(f, acc, lines) ==
  IF lines = <<>> THEN acc
  ELSE ProcessLines(f, ProcessLine(f, acc, Head(lines)), Tail(lines))

\* One chunk: decode, split, visit the lines.  Chunks hold whole characters,
\* so new TextDecoder().decode(value) gives back the text that was cut.
ProcessChunk(f, acc, chunk) == ProcessLines(f, acc, Split(chunk))

\* Mutant of HasConversationId: the length test is dropped.
HasConversationIdNoLength(f, conversationId) ==
  conversationId \notin {Null, Undefined}

\* The post-scan test.  AgentQuizForm and LessonPlanForm:
\* conversationId !== null && conversationId.length > 0; QuizForm:
\* typeof conversationId === 'string' && conversationId.length > 0.
HasConversationId(f, conversationId) ==
  CASE f = "QuizForm" -> conversationId \notin {Null, Undefined} /\ conversationId # ""
    [] OTHER          -> conversationId # Null /\ conversationId # ""

\* The read loop on a given sequence of chunks, as a function: the loop
\* takes the next chunk while isComplete is false.
RECURSIVE ScanChunks(_, _, _)
ScanChunks(f, acc, cs) ==
  IF cs = <<>> \/ acc.isComplete THEN acc
  ELSE ScanChunks(f, ProcessChunk(f, acc, Head(cs)), Tail(cs))

\* let conversationId = null; let isComplete = false
InitialAcc == [conversationId |-> Null, isComplete |-> FALSE]

\* ------------------------------------------------------------------ state
VARIABLES
  form,            \* which of the three components runs handleSubmit
  token, user,     \* useAuthContext()
  pc,              \* position of handleSubmit
  isLoading,       \* useState(false)
  conversationId,  \* let conversationId: string | null = null
  isComplete,      \* let isComplete = false
  locked,          \* the body stream is locked to the reader
  reads,           \* reader.read() calls issued
  releases,        \* reader.releaseLock() calls
  waited,          \* the 1000 ms timer of the post-scan wait has fired
  href,            \* window.location.href, Null while not assigned
  alerts,          \* the messages passed to alert(), in order
  parsedLog,       \* the lines handed to JSON.parse, in order
  wire,            \* text the server has written that no read() has returned yet
  chunks,          \* the chunks read() has resolved with, in order
  ended,           \* "open", "closed" (end of stream) or "errored"
  written          \* lines the server has written

formVars == <<form, token, user, pc, isLoading, conversationId, isComplete,
              locked, reads, releases, waited, href, alerts, parsedLog>>
netVars == <<wire, chunks, ended, written>>

\* The server: one call of moderateMessage, and AskController around it.
VARIABLES
  mpc,             \* position of moderateMessage
  mtarget,         \* the message of the call: "response" or "user"
  mraw,            \* responseContent
  mcands,          \* let categories = parseOllamaResponse(responseContent)
  mupdate,         \* the moderation object handed to saveMessage
  modStore,        \* the moderation field of the two stored messages
  mlog,            \* the logger calls of warn and error level, in order
  apc,             \* position of AskController
  closed,          \* the 'close' event of res has fired
  aborted,         \* abortController.signal.aborted
  requestCompleted,    \* abortController.requestCompleted
  savedByClient,   \* client.savedMessageIds.has(response.messageId)
  skipSaveUserMessage, \* client.skipSaveUserMessage
  closeAborts,     \* the abort() calls the close handler has made
  finalSent,       \* the final event was sent and res.end() called
  saved,           \* the messages AskController has saved
  modCalls,        \* the messages moderateMessage was called with, in order
  errorCause       \* what handleAbortError was entered for, Null if it was not

\* The locals of AskController that getReqData assigns.
VARIABLES
  askConversationId,   \* conversationId, first taken from req.body
  userMessage,
  userMessageId,
  userMessagePromise,
  responseMessageId,
  promptTokens,
  reqData          \* data of the last getReqData call, empty before the first

\* The TeacherTools menu entry with its dialog.
VARIABLES
  isOpen,          \* useState(false)
  activeTool,      \* useState<ToolType | null>(null)
  isSmallScreen,   \* the prop
  navToggles,      \* the toggleNav() calls made
  events           \* the events handled so far, in order

modVars == <<mpc, mtarget, mraw, mcands, mupdate, modStore, mlog>>
askVars == <<apc, closed, closeAborts, aborted, requestCompleted, savedByClient,
             skipSaveUserMessage, finalSent, saved, modCalls, errorCause>>
reqVars == <<askConversationId, userMessage, userMessageId, userMessagePromise,
             responseMessageId, promptTokens, reqData>>
serverVars == <<modVars, askVars, reqVars>>
dialogVars == <<isOpen, activeTool, isSmallScreen, navToggles, events>>
vars == <<formVars, netVars, serverVars, dialogVars>>

\* responseContent before the guard has answered.
NotReceived == [t |-> "none"]
\* No moderation object.
NoModeration == [present |-> FALSE]
Targets == {"response", "user"}

\* No moderateMessage call has been made.
ModerationAtRest ==
  /\ mpc = "idle"
  /\ mtarget = Null
  /\ mraw = NotReceived
  /\ mcands = <<>>
  /\ mupdate = NoModeration
  /\ modStore = [m \in Targets |-> NoModeration]
  /\ mlog = <<>>

\* No request has reached AskController.
ControllerAtRest ==
  /\ apc = "idle"
  /\ closed = FALSE
  /\ closeAborts = 0
  /\ aborted = FALSE
  /\ requestCompleted = FALSE
  /\ savedByClient = FALSE
  /\ skipSaveUserMessage = FALSE
  /\ finalSent = FALSE
  /\ saved = {}
  /\ modCalls = <<>>
  /\ errorCause = Null
  /\ askConversationId = Undefined
  /\ userMessage = Undefined
  /\ userMessageId = Undefined
  /\ userMessagePromise = Undefined
  /\ responseMessageId = Undefined
  /\ promptTokens = Undefined
  /\ reqData = <<>>

\* The dialog is closed and no tool is chosen; the nav is wide.
DialogAtRest ==
  /\ isOpen = FALSE
  /\ activeTool = Null
  /\ isSmallScreen = FALSE
  /\ navToggles = 0
  /\ events = <<>>

Tokens == {Null, "", "tok"}
Users == {Null, "no-id", "user-1"}

\* The messages of the Error objects handleSubmit throws.
ErrToken == "Authentication token is missing"
ErrUser == "User ID is missing or invalid"
ErrResponse == "Failed to generate"
ErrReader == "Failed to get response reader"
ErrNoId == "No conversation ID found in response"
ErrFetch == "fetch rejected"
ErrRead == "read rejected"

Init ==
  /\ form \in Forms
  /\ token \in Tokens
  /\ user \in Users
  /\ pc = "idle"
  /\ isLoading = FALSE
  /\ conversationId = Null
  /\ isComplete = FALSE
  /\ locked = FALSE
  /\ reads = 0
  /\ releases = 0
  /\ waited = FALSE
  /\ href = Null
  /\ alerts = <<>>
  /\ parsedLog = <<>>
  /\ wire = <<>>
  /\ chunks = <<>>
  /\ ended = "open"
  /\ written = 0
  /\ ModerationAtRest
  /\ ControllerAtRest
  /\ DialogAtRest

\* The catch without the finally block: isLoading stays as setIsLoading(true)
\* left it.
CaughtWithoutFinally(msg) ==
  /\ alerts' = Append(alerts, msg)
  /\ isLoading' = TRUE
  /\ pc' = "finished"

\* catch (error) { alert(...) } finally { setIsLoading(false) }
Caught(msg) ==
  /\ alerts' = Append(alerts, msg)
  /\ isLoading' = FALSE
  /\ pc' = "finished"

\* token === null || token.length === 0 (QuizForm: typeof token !== 'string')
TokenMissing == token = Null \/ token = ""

\* user === null || typeof user.id !== 'string' (QuizForm: user?.id === undefined)
UserInvalid == user = Null \/ user = "no-id"

\* handleSubmit up to its first await: setIsLoading(true), the two guards,
\* the fetch call.
Submit ==
  /\ pc = "idle"
  /\ IF TokenMissing THEN Caught(ErrToken)
     ELSE IF UserInvalid THEN Caught(ErrUser)
     ELSE /\ isLoading' = TRUE
          /\ pc' = "fetch"
          /\ alerts' = alerts
  /\ UNCHANGED <<serverVars, dialogVars>>
  /\ UNCHANGED <<form, token, user, conversationId, isComplete, locked, reads,
                 releases, waited, href, parsedLog, netVars>>

\* fetch() rejects (network failure before any response).
FetchRejects ==
  /\ pc = "fetch"
  /\ Caught(ErrFetch)
  /\ UNCHANGED <<serverVars, dialogVars>>
  /\ UNCHANGED <<form, token, user, conversationId, isComplete, locked, reads,
                 releases, waited, href, parsedLog, netVars>>

\* fetch() resolves with !response.ok: the form awaits response.text().
ResponseNotOk ==
  /\ pc = "fetch"
  /\ pc' = "errorText"
  /\ UNCHANGED <<serverVars, dialogVars>>
  /\ UNCHANGED <<form, token, user, isLoading, conversationId, isComplete, locked, reads,
                 releases, waited, href, alerts, parsedLog, netVars>>

\* response.text() settles; throw new Error(`Failed to generate ...`).
ErrorText ==
  /\ pc = "errorText"
  /\ Caught(ErrResponse)
  /\ UNCHANGED <<serverVars, dialogVars>>
  /\ UNCHANGED <<form, token, user, conversationId, isComplete, locked, reads,
                 releases, waited, href, parsedLog, netVars>>

\* fetch() resolves with response.ok and response.body is missing.
NoReader ==
  /\ pc = "fetch"
  /\ Caught(ErrReader)
  /\ UNCHANGED <<serverVars, dialogVars>>
  /\ UNCHANGED <<form, token, user, conversationId, isComplete, locked, reads,
                 releases, waited, href, parsedLog, netVars>>

\* fetch() resolves with response.ok: getReader() locks the body; the two
\* locals are initialised and the try block is entered.
GetReader ==
  /\ pc = "fetch"
  /\ locked' = TRUE
  /\ conversationId' = Null
  /\ isComplete' = FALSE
  /\ pc' = "loop"
  /\ UNCHANGED <<serverVars, dialogVars>>
  /\ UNCHANGED <<form, token, user, isLoading, reads, releases, waited, href, alerts,
                 parsedLog, netVars>>

\* The loop as while (true): read() is called whatever isComplete holds.
CallReadAlways ==
  /\ pc = "loop"
  /\ reads' = reads + 1
  /\ pc' = "reading"
  /\ UNCHANGED <<serverVars, dialogVars>>
  /\ UNCHANGED <<form, token, user, isLoading, conversationId, isComplete, locked,
                 releases, waited, href, alerts, parsedLog, netVars>>

\* while (!isComplete) { ... await reader.read()
CallRead ==
  /\ pc = "loop"
  /\ ~isComplete
  /\ reads' = reads + 1
  /\ pc' = "reading"
  /\ UNCHANGED <<serverVars, dialogVars>>
  /\ UNCHANGED <<form, token, user, isLoading, conversationId, isComplete, locked,
                 releases, waited, href, alerts, parsedLog, netVars>>

\* read() resolves with {done: false, value}: the transport hands over the
\* first k symbols it holds as one chunk, and the rest of the loop body runs
\* (value is always a Uint8Array for a fetch body).
ReadResolves(k) ==
  /\ pc = "reading"
  /\ ended # "errored"
  /\ k \in 1..Len(wire)
  /\ LET chunk == SubSeq(wire, 1, k)
         acc == ProcessChunk(form, [conversationId |-> conversationId,
                                    isComplete |-> isComplete], chunk)
     IN /\ conversationId' = acc.conversationId
        /\ isComplete' = acc.isComplete
        /\ parsedLog' = parsedLog \o ParsedLines(Split(chunk))
        /\ chunks' = Append(chunks, chunk)
  /\ wire' = SubSeq(wire, k + 1, Len(wire))
  /\ pc' = "loop"
  /\ UNCHANGED <<serverVars, dialogVars>>
  /\ UNCHANGED <<form, token, user, isLoading, locked, reads, releases, waited, href,
                 alerts, ended, written>>

\* The transport cuts the text where it likes, MaxChunks times.
ReadChunk(k) ==
  /\ Len(chunks) < MaxChunks
  /\ ReadResolves(k)

\* After that it hands over all it holds as one chunk.
ReadRest ==
  /\ Len(chunks) >= MaxChunks
  /\ wire # <<>>
  /\ ReadResolves(Len(wire))

\* finally { reader.releaseLock() }
ReleaseLock ==
  /\ locked' = FALSE
  /\ releases' = releases + 1

\* read() resolves with {done: true}: isComplete = true; break; the finally
\* block releases the lock and the form starts the 1000 ms wait.
ReadDone ==
  /\ pc = "reading"
  /\ wire = <<>>
  /\ ended = "closed"
  /\ isComplete' = TRUE
  /\ ReleaseLock
  /\ pc' = "grace"
  /\ UNCHANGED <<serverVars, dialogVars>>
  /\ UNCHANGED <<form, token, user, isLoading, conversationId, reads, waited, href,
                 alerts, parsedLog, netVars>>

\* Mutant of ReadRejects: no finally block, the lock is kept.
ReadRejectsWithoutFinally ==
  /\ pc = "reading"
  /\ ended = "errored"
  /\ Caught(ErrRead)
  /\ UNCHANGED <<serverVars, dialogVars>>
  /\ UNCHANGED <<form, token, user, conversationId, isComplete, locked, reads, releases,
                 waited, href, parsedLog, netVars>>

\* Mutant of ReadRejects: the rejection is swallowed next to the loop and
\* the form goes on to the post-scan wait.
ReadRejectsSwallowed ==
  /\ pc = "reading"
  /\ ended = "errored"
  /\ ReleaseLock
  /\ pc' = "grace"
  /\ UNCHANGED <<serverVars, dialogVars>>
  /\ UNCHANGED <<form, token, user, isLoading, conversationId, isComplete, reads, waited,
                 href, alerts, parsedLog, netVars>>

\* read() rejects: the finally block releases the lock, the error reaches
\* the outer catch.
ReadRejects ==
  /\ pc = "reading"
  /\ ended = "errored"
  /\ ReleaseLock
  /\ Caught(ErrRead)
  /\ UNCHANGED <<serverVars, dialogVars>>
  /\ UNCHANGED <<form, token, user, conversationId, isComplete, reads, waited, href,
                 parsedLog, netVars>>

\* The while condition fails after a completion signal: the finally block
\* releases the lock and the form starts the 1000 ms wait.
LoopExit ==
  /\ pc = "loop"
  /\ isComplete
  /\ ReleaseLock
  /\ pc' = "grace"
  /\ UNCHANGED <<serverVars, dialogVars>>
  /\ UNCHANGED <<form, token, user, isLoading, conversationId, isComplete, reads,
                 waited, href, alerts, parsedLog, netVars>>

\* The post-scan step without its else branch: no conversationId, no error.
GraceElapsedSilent ==
  /\ pc = "grace"
  /\ waited' = TRUE
  /\ href' = IF HasConversationId(form, conversationId) THEN conversationId ELSE href
  /\ isLoading' = FALSE
  /\ pc' = "finished"
  /\ UNCHANGED <<serverVars, dialogVars>>
  /\ UNCHANGED <<form, token, user, conversationId, isComplete, locked, reads,
                 releases, alerts, parsedLog, netVars>>

\* The timer fires: navigate, or throw the no-conversation-id error.
GraceElapsed ==
  /\ pc = "grace"
  /\ waited' = TRUE
  /\ IF HasConversationId(form, conversationId)
       THEN /\ href' = conversationId
            /\ alerts' = alerts
            /\ isLoading' = FALSE
            /\ pc' = "finished"
       ELSE /\ href' = href
            /\ Caught(ErrNoId)
  /\ UNCHANGED <<serverVars, dialogVars>>
  /\ UNCHANGED <<form, token, user, conversationId, isComplete, locked, reads,
                 releases, parsedLog, netVars>>

\* ---------------------------------------------------------------- transport
\* The response whose body the reader was taken from.
HasResponse == locked \/ releases > 0

\* The server writes one more line, newline included.
ServerWrite(line) ==
  /\ HasResponse
  /\ ended = "open"
  /\ written < MaxLines
  /\ wire' = wire \o line \o <<NL>>
  /\ written' = written + 1
  /\ UNCHANGED <<serverVars, dialogVars>>
  /\ UNCHANGED <<formVars, chunks, ended>>

\* The server ends the response; what it wrote is still handed over.
Close ==
  /\ HasResponse
  /\ ended = "open"
  /\ ended' = "closed"
  /\ UNCHANGED <<serverVars, dialogVars>>
  /\ UNCHANGED <<formVars, wire, chunks, written>>

\* The connection breaks: the stream is errored and its queue is dropped.
Break ==
  /\ HasResponse
  /\ ended = "open"
  /\ ended' = "errored"
  /\ wire' = <<>>
  /\ UNCHANGED <<serverVars, dialogVars>>
  /\ UNCHANGED <<formVars, chunks, written>>

Next ==
  \/ Submit
  \/ FetchRejects
  \/ ResponseNotOk
  \/ ErrorText
  \/ NoReader
  \/ GetReader
  \/ CallRead
  \/ \E k \in 1..Len(wire) : ReadChunk(k)
  \/ ReadDone
  \/ ReadRejects
  \/ LoopExit
  \/ GraceElapsed
  \/ \E line \in Lines : ServerWrite(line)
  \/ Close
  \/ Break

Spec == Init /\ [][Next]_vars

\* The lines of the servers followed to the end of handleSubmit: an event
\* with a conversationId and a terminal event.
LiveLines == {EventLine(b) : b \in {"{cid:abc}", "{final:true}"}}

\* read() settles: with a chunk, with done, or with an error.
ReadSettles ==
  \/ \E k \in 1..Len(wire) : ReadChunk(k)
  \/ ReadRest
  \/ ReadDone
  \/ ReadRejects

\* fetch() settles.
FetchSettles == FetchRejects \/ ResponseNotOk \/ NoReader \/ GetReader

LiveNext ==
  \/ Submit
  \/ FetchSettles
  \/ ErrorText
  \/ CallRead
  \/ ReadSettles
  \/ LoopExit
  \/ GraceElapsed
  \/ \E line \in LiveLines : ServerWrite(line)
  \/ Close
  \/ Break

\* handleSubmit with its continuations scheduled: a settled promise is
\* awaited, the 1000 ms timer fires, and fetch, response.text() and a read()
\* for which the transport holds a chunk, the end or an error settle.  The
\* server and the connection owe nothing: no fairness on writes, end or
\* failure of the stream.
LiveSpec ==
  /\ Init
  /\ [][LiveNext]_vars
  /\ WF_vars(FetchSettles)
  /\ WF_vars(ErrorText)
  /\ WF_vars(CallRead)
  /\ WF_vars(ReadSettles)
  /\ WF_vars(LoopExit)
  /\ WF_vars(GraceElapsed)

TypeOK ==
  /\ pc \in {"idle", "fetch", "errorText", "loop", "reading", "grace", "finished"}
  /\ isLoading \in BOOLEAN
  /\ isComplete \in BOOLEAN
  /\ Len(chunks) <= MaxChunks

\* ---------------------------------------------- moderation: text handling
\* The guard model's text is a sequence of characters, each a string.
LF == "\n"
\* The double-quote character.
Quote == "<dq>"
\* The backtick character.
Tick == "<bt>"
Whitespace == {" ", LF, "\t", "\r"}
Digits == <<"0", "1", "2", "3", "4", "5", "6", "7", "8", "9">>
UpperCase == <<"A", "B", "C", "D", "E", "F", "G", "H", "I", "J", "K", "L", "M",
               "N", "O", "P", "Q", "R", "S", "T", "U", "V", "W", "X", "Y", "Z">>
LowerCase == <<"a", "b", "c", "d", "e", "f", "g", "h", "i", "j", "k", "l", "m",
               "n", "o", "p", "q", "r", "s", "t", "u", "v", "w", "x", "y", "z">>

IsDigit(c) == \E i \in 1..Len(Digits) : Digits[i] = c

\* String.prototype.toLowerCase
ToLowerChar(c) ==
  IF \E i \in 1..Len(UpperCase) : UpperCase[i] = c
    THEN LowerCase[CHOOSE i \in 1..Len(UpperCase) : UpperCase[i] = c]
    ELSE c

\* Each character lower-cased, the text taken by halves.
RECURSIVE ToLowerCase(_)
ToLowerCase(str) ==
  IF str = <<>> THEN <<>>
  ELSE IF Len(str) = 1 THEN <<ToLowerChar(str[1])>>
  ELSE LET half == Len(str) \div 2
       IN ToLowerCase(SubSeq(str, 1, half)) \o ToLowerCase(SubSeq(str, half + 1, Len(str)))

\* String.prototype.trim: from the first to the last character that is no
\* whitespace.
Trim(str) ==
  IF \A i \in 1..Len(str) : str[i] \in Whitespace THEN <<>>
  ELSE LET first == CHOOSE i \in 1..Len(str) :
                      /\ str[i] \notin Whitespace
                      /\ \A k \in 1..(i - 1) : str[k] \in Whitespace
           last == CHOOSE i \in 1..Len(str) :
                     /\ str[i] \notin Whitespace
                     /\ \A k \in (i + 1)..Len(str) : str[k] \in Whitespace
       IN SubSeq(str, first, last)

\* pat occurs in str at index i
MatchAt(str, i, pat) ==
  /\ i + Len(pat) - 1 <= Len(str)
  /\ str[i] = pat[1]
  /\ SubSeq(str, i, i + Len(pat) - 1) = pat

\* String.prototype.includes
Includes(str, pat) == \E i \in 1..Len(str) : MatchAt(str, i, pat)

\* String.prototype.startsWith / endsWith for a one-character argument
StartsWithChar(str, c) == str # <<>> /\ str[1] = c
EndsWithChar(str, c) == str # <<>> /\ str[Len(str)] = c

\* String.prototype.split('\n'): the lines of str from index i on.
RECURSIVE SplitLinesFrom(_, _)
SplitLinesFrom(str, i) ==
  IF \A j \in i..Len(str) : str[j] # LF THEN <<SubSeq(str, i, Len(str))>>
  ELSE LET j == CHOOSE j \in i..Len(str) :
                  /\ str[j] = LF
                  /\ \A k \in i..(j - 1) : str[k] # LF
       IN <<SubSeq(str, i, j - 1)>> \o SplitLinesFrom(str, j + 1)

SplitLines(str) == SplitLinesFrom(str, 1)

\* The two alternatives of the regular expression /```json\n|\n```/g
FenceJson == <<Tick, Tick, Tick, "j", "s", "o", "n", LF>>
FenceClose == <<LF, Tick, Tick, Tick>>

\* response.replace(/```json\n|\n```/g, ''): leftmost matches, the first
\* alternative tried first at each position.
FenceAt(str, i) == MatchAt(str, i, FenceJson) \/ MatchAt(str, i, FenceClose)

RECURSIVE ReplaceFencesFrom(_, _)
ReplaceFencesFrom(str, i) ==
  IF \A j \in i..Len(str) : ~FenceAt(str, j) THEN SubSeq(str, i, Len(str))
  ELSE LET j == CHOOSE j \in i..Len(str) :
                  /\ FenceAt(str, j)
                  /\ \A k \in i..(j - 1) : ~FenceAt(str, k)
           skip == IF MatchAt(str, j, FenceJson) THEN Len(FenceJson)
                   ELSE Len(FenceClose)
       IN SubSeq(str, i, j - 1) \o ReplaceFencesFrom(str, j + skip)

ReplaceFences(str) == ReplaceFencesFrom(str, 1)

\* const cleanResponse = response.replace(...).trim()
CleanResponse(str) == Trim(ReplaceFences(str))

\* ------------------------------------------------- moderation: JSON.parse
\* JSON.parse on a text that starts with '[': arrays of string literals
\* (with the escapes \" and \\) and of unsigned integers, with optional
\* whitespace.  Every other text is a SyntaxError; the guard outputs of this
\* model hold no nested arrays, objects, literals or other escapes.
\* A parsed element is [t |-> "string" or "number", v |-> its characters].
Backslash == "\\"

SkipWs(str, i) ==
  LET rest == {j \in i..Len(str) : str[j] \notin Whitespace}
  IN IF rest = {} THEN Len(str) + 1 ELSE CHOOSE j \in rest : \A k \in rest : j <= k

\* The characters that end a run of plain characters in a string literal.
Special == {Quote, Backslash, LF, "\t", "\r"}

\* The characters of a string literal from index i on: [next, ok, v], next
\* being the index after the closing quote.
RECURSIVE ScanString(_, _, _)
ScanString(str, i, acc) ==
  IF \A j \in i..Len(str) : str[j] \notin Special THEN [ok |-> FALSE]
  ELSE LET j == CHOOSE j \in i..Len(str) :
                  /\ str[j] \in Special
                  /\ \A k \in i..(j - 1) : str[k] \notin Special
           run == acc \o SubSeq(str, i, j - 1)
       IN IF str[j] = Quote THEN [next |-> j + 1, ok |-> TRUE, v |-> run]
          ELSE IF /\ str[j] = Backslash
                  /\ j + 1 <= Len(str)
                  /\ str[j + 1] \in {Quote, Backslash}
            THEN ScanString(str, j + 2, Append(run, str[j + 1]))
          ELSE [ok |-> FALSE]

\* The index after the digits that start at i.
NumberEnd(str, i) ==
  LET stops == {j \in i..Len(str) : ~IsDigit(str[j])}
  IN IF stops = {} THEN Len(str) + 1 ELSE CHOOSE j \in stops : \A k \in stops : j <= k

\* One value at index i: [elem, next, ok].
ParseValue(str, i) ==
  IF i > Len(str) THEN [ok |-> FALSE]
  ELSE IF str[i] = Quote THEN
    LET r == ScanString(str, i + 1, <<>>) IN
    IF r.ok THEN [elem |-> [t |-> "string", v |-> r.v], next |-> r.next, ok |-> TRUE]
    ELSE [ok |-> FALSE]
  ELSE IF IsDigit(str[i]) THEN
    LET e == NumberEnd(str, i) IN
    IF str[i] = "0" /\ e > i + 1
      THEN [ok |-> FALSE]
      ELSE [elem |-> [t |-> "number", v |-> SubSeq(str, i, e - 1)],
            next |-> e, ok |-> TRUE]
  ELSE [ok |-> FALSE]

\* The elements after the first one: (',' value)* ']' and the end of text.
RECURSIVE ParseRest(_, _, _)
ParseRest(str, i, acc) ==
  LET j == SkipWs(str, i) IN
  IF j > Len(str) THEN [ok |-> FALSE]
  ELSE IF str[j] = "]" THEN
    (IF SkipWs(str, j + 1) > Len(str) THEN [elems |-> acc, ok |-> TRUE]
     ELSE [ok |-> FALSE])
  ELSE IF str[j] = "," THEN
    LET v == ParseValue(str, SkipWs(str, j + 1)) IN
    IF v.ok THEN ParseRest(str, v.next, Append(acc, v.elem)) ELSE [ok |-> FALSE]
  ELSE [ok |-> FALSE]

\* JSON.parse(cleanResponse) for a text whose first character is '['.
JSONparseArray(str) ==
  LET j == SkipWs(str, 2) IN
  IF j > Len(str) THEN [ok |-> FALSE]
  ELSE IF str[j] = "]" THEN ParseRest(str, j, <<>>)
  ELSE LET v == ParseValue(str, j) IN
    IF v.ok THEN ParseRest(str, v.next, <<v.elem>>) ELSE [ok |-> FALSE]

\* ------------------------------------------- moderation: parseOllamaResponse
\* The literals of parseOllamaResponse and moderateMessage.
StrSafe == <<"s", "a", "f", "e">>
StrUnsafe == <<"u", "n", "s", "a", "f", "e">>
StrError == <<"e", "r", "r", "o", "r">>
StrNoHarmfulContent == <<"n", "o", " ", "h", "a", "r", "m", "f", "u", "l", " ", "c", "o", "n", "t", "e", "n", "t">>
StrAnalysis == <<"a", "n", "a", "l", "y", "s", "i", "s", ":">>
StrCategories == <<"c", "a", "t", "e", "g", "o", "r", "i", "e", "s", ":">>
StrTheMessage == <<"t", "h", "e", " ", "m", "e", "s", "s", "a", "g", "e">>
StrThisContent == <<"t", "h", "i", "s", " ", "c", "o", "n", "t", "e", "n", "t">>

StringElem(str) == [t |-> "string", v |-> str]

\* .map(line => line.trim().toLowerCase())
RECURSIVE MapTrimLower(_)
MapTrimLower(lines) ==
  IF lines = <<>> THEN <<>>
  ELSE <<ToLowerCase(Trim(Head(lines)))>> \o MapTrimLower(Tail(lines))

\* The predicate of the first filter: not empty and none of the three phrases.
KeepLine(line) ==
  /\ Len(line) > 0
  /\ ~Includes(line, StrNoHarmfulContent)
  /\ ~Includes(line, StrAnalysis)
  /\ ~Includes(line, StrCategories)

\* The last filter without its first phrase.
CategoryLineThisContentOnly(line) == ~Includes(line, StrThisContent)

\* The predicate of the last filter.
CategoryLine(line) ==
  /\ ~Includes(line, StrTheMessage)
  /\ ~Includes(line, StrThisContent)

\* lines.every(line => line.includes('safe'))
OnlySafeIndicators(lines) == \A i \in 1..Len(lines) : Includes(lines[i], StrSafe)

\* The line-based parsing with lines.some in place of lines.every.
LineBasedSomeSafe(clean) ==
  LET lines == SelectSeq(MapTrimLower(SplitLines(clean)), KeepLine)
  IN IF \E i \in 1..Len(lines) : Includes(lines[i], StrSafe) THEN <<StrSafe>>
     ELSE SelectSeq(lines, CategoryLine)

\* The line-based parsing of the cleaned text: the returned array of strings.
LineBased(clean) ==
  LET lines == SelectSeq(MapTrimLower(SplitLines(clean)), KeepLine)
  IN IF OnlySafeIndicators(lines) THEN <<StrSafe>>
     ELSE SelectSeq(lines, CategoryLine)

\* cleanResponse.startsWith('[') && cleanResponse.endsWith(']')
LooksLikeArray(clean) == StartsWithChar(clean, "[") /\ EndsWithChar(clean, "]")

RECURSIVE AsElems(_)
AsElems(strs) ==
  IF strs = <<>> THEN <<>> ELSE <<StringElem(Head(strs))>> \o AsElems(Tail(strs))

\* parseOllamaResponse without the try around JSON.parse: a SyntaxError
\* reaches the outer catch.
ParseOllamaResponseNoInnerCatch(response) ==
  IF response.t # "string"
    THEN [elems |-> <<StringElem(StrError)>>, jsonError |-> FALSE, parseError |-> TRUE]
  ELSE LET clean == CleanResponse(response.v)
           parsed == IF LooksLikeArray(clean) THEN JSONparseArray(clean) ELSE [ok |-> FALSE]
       IN IF LooksLikeArray(clean)
            THEN (IF parsed.ok
                    THEN [elems |-> parsed.elems, jsonError |-> FALSE, parseError |-> FALSE]
                    ELSE [elems |-> <<StringElem(StrError)>>,
                          jsonError |-> FALSE, parseError |-> TRUE])
            ELSE [elems |-> AsElems(LineBased(clean)),
                  jsonError |-> FALSE, parseError |-> FALSE]

\* parseOllamaResponse(response).  response is [t |-> "string", v |-> text]
\* or a value of another type, on which response.replace is not a function:
\* the outer catch returns ['error'].  The result holds the returned array
\* (elems), whether the inner catch ran (jsonError) and whether the outer
\* catch ran (parseError).
ParseOllamaResponse(response) ==
  IF response.t # "string"
    THEN [elems |-> <<StringElem(StrError)>>, jsonError |-> FALSE, parseError |-> TRUE]
  ELSE LET clean == CleanResponse(response.v)
           parsed == IF LooksLikeArray(clean) THEN JSONparseArray(clean) ELSE [ok |-> FALSE]
       IN IF LooksLikeArray(clean) /\ parsed.ok
            THEN [elems |-> parsed.elems, jsonError |-> FALSE, parseError |-> FALSE]
            ELSE [elems |-> AsElems(LineBased(clean)),
                  jsonError |-> LooksLikeArray(clean), parseError |-> FALSE]

\* ----------------------------------------- moderation: category formatting
\* The S-codes run from 1 to UnsafeCodes.
UnsafeCodes == 13

\* The number a string of digits converts to (number >= 1 && number <= 13).
RECURSIVE ToNumber(_)
ToNumber(digits) ==
  IF digits = <<>> THEN 0
  ELSE 10 * ToNumber(SubSeq(digits, 1, Len(digits) - 1))
       + ((CHOOSE i \in 1..10 : Digits[i] = digits[Len(digits)]) - 1)

\* category.match(/^s\d+$/)
MatchesSCode(category) ==
  /\ Len(category) >= 2
  /\ category[1] = "s"
  /\ \A i \in 2..Len(category) : IsDigit(category[i])

\* The callback with `S${category}` in place of `S${number}`.
FormatCategoryWrongVariable(str) ==
  LET category == Trim(ToLowerCase(str))
      number == SubSeq(category, 2, Len(category))
  IN IF MatchesSCode(category) /\ ToNumber(number) >= 1 /\ ToNumber(number) <= UnsafeCodes
       THEN <<"S">> \o category
       ELSE category

\* The callback of categories.map, for a string.
FormatCategory(str) ==
  LET category == Trim(ToLowerCase(str))
      number == SubSeq(category, 2, Len(category))
  IN IF MatchesSCode(category) /\ ToNumber(number) >= 1 /\ ToNumber(number) <= UnsafeCodes
       THEN <<"S">> \o number
       ELSE category

\* categories.map(...): category.toLowerCase is not a function for an
\* element that is no string, and the map throws a TypeError.
FormatThrows(elems) == \E i \in 1..Len(elems) : elems[i].t # "string"

RECURSIVE FormatCategories(_)
FormatCategories(elems) ==
  IF elems = <<>> THEN <<>>
  ELSE <<FormatCategory(Head(elems).v)>> \o FormatCategories(Tail(elems))

\* The decimal text of a number below 100, as the template string gives it.
DecimalText(n) ==
  IF n < 10 THEN <<Digits[n + 1]>>
  ELSE <<Digits[(n \div 10) + 1], Digits[(n % 10) + 1]>>

\* const unsafeCategories = ['unsafe', ...Array.from({ length: 13 }, ...)]
UnsafeCategories == {StrUnsafe} \cup {<<"S">> \o DecimalText(i) : i \in 1..UnsafeCodes}

\* flagged for every list that holds something other than 'safe'.
FlaggedAnyNotSafe(categories) == \E i \in 1..Len(categories) : categories[i] # StrSafe

\* flagged: categories.some(cat => unsafeCategories.includes(cat))
Flagged(categories) == \E i \in 1..Len(categories) : categories[i] \in UnsafeCategories

\* ------------------------------------------------- moderation: guard outputs
\* The content the guard model answers with, response.data.choices[0]
\* .message.content: texts of up to MaxGuardLines lines, JSON arrays of up to
\* MaxElems elements, texts in brackets that are no JSON, each bare, in a
\* ```json fence or in a plain ``` fence; and contents that are no text.
MaxGuardLines == 2
MaxElems == 2

LineSafeSentence == <<"S", "a", "f", "e", ".">>
LineUnsafe == <<"u", "n", "s", "a", "f", "e">>
LineS1 == <<"S", "1">>
LineS5Padded == <<" ", "S", "5", " ">>
LineS01 == <<"s", "0", "1">>
LineS14 == <<"s", "1", "4">>
LineGarbage == <<"b", "l", "a", "h", " ", "b", "l", "a", "h">>
LineAnalysis ==
  <<"A", "n", "a", "l", "y", "s", "i", "s", ":", " ", "n", "o", " ", "h", "a", "r",
    "m", "f", "u", "l", " ", "c", "o", "n", "t", "e", "n", "t", " ", "d", "e", "t",
    "e", "c", "t", "e", "d", ".">>
LineTheMessage ==
  <<"T", "h", "e", " ", "m", "e", "s", "s", "a", "g", "e", " ", "i", "s", " ", "b",
    "a", "d">>
LineEmpty == <<>>

GuardLineVocab ==
  {LineSafeSentence, LineUnsafe, LineS1, LineS5Padded, LineS01,
   LineS14, LineGarbage, LineAnalysis, LineTheMessage, LineEmpty}

ElemHate == StringElem(<<"h", "a", "t", "e">>)
ElemS1 == StringElem(<<"S", "1">>)
ElemSafe == StringElem(<<"s", "a", "f", "e">>)
ElemS01 == StringElem(<<"s", "0", "1">>)
ElemUnsafePadded == StringElem(<<" ", "U", "n", "s", "a", "f", "e", " ">>)
ElemS14 == StringElem(<<"s", "1", "4">>)
ElemOne == [t |-> "number", v |-> <<"1">>]

GuardElemVocab == {ElemHate, ElemS1, ElemSafe, ElemS01, ElemUnsafePadded, ElemS14, ElemOne}

TextOops == <<"[", "o", "o", "p", "s", "]">>
TextTrailingComma == <<"[", Quote, "h", "a", "t", "e", Quote, ",", "]">>
GuardMalformed == {TextOops, TextTrailingComma}

\* The sequences over S of length n, and of the lengths from lo to hi.
RECURSIVE SeqsOfLen(_, _)
SeqsOfLen(S, n) ==
  IF n = 0 THEN {<<>>} ELSE {Append(q, x) : q \in SeqsOfLen(S, n - 1), x \in S}

SeqsUpTo(S, lo, hi) == UNION {SeqsOfLen(S, k) : k \in lo..hi}

RECURSIVE JoinLines(_)
JoinLines(ls) ==
  IF Len(ls) = 1 THEN ls[1] ELSE ls[1] \o <<LF>> \o JoinLines(Tail(ls))

\* JSON.stringify of a string: the quote and the backslash are escaped.
RECURSIVE EscapeFrom(_, _)
EscapeFrom(str, i) ==
  IF \A j \in i..Len(str) : str[j] \notin {Quote, Backslash}
    THEN SubSeq(str, i, Len(str))
  ELSE LET j == CHOOSE j \in i..Len(str) :
                  /\ str[j] \in {Quote, Backslash}
                  /\ \A k \in i..(j - 1) : str[k] \notin {Quote, Backslash}
       IN SubSeq(str, i, j - 1) \o <<Backslash, str[j]>> \o EscapeFrom(str, j + 1)

Escape(str) == EscapeFrom(str, 1)

StringifyElem(e) ==
  IF e.t = "string" THEN <<Quote>> \o Escape(e.v) \o <<Quote>> ELSE e.v

RECURSIVE StringifyFrom(_, _)
StringifyFrom(elems, i) ==
  IF i > Len(elems) THEN <<>>
  ELSE (IF i > 1 THEN <<",">> ELSE <<>>)
       \o StringifyElem(elems[i]) \o StringifyFrom(elems, i + 1)

\* JSON.stringify of an array of strings and numbers.
Stringify(elems) == <<"[">> \o StringifyFrom(elems, 1) \o <<"]">>

Wraps == {"bare", "json", "plain"}
FencePlain == <<Tick, Tick, Tick, LF>>

Wrap(w, text) ==
  IF w = "bare" THEN text
  ELSE IF w = "json" THEN FenceJson \o text \o FenceClose
  ELSE FencePlain \o text \o FenceClose

LineSources ==
  {[kind |-> "lines", parts |-> ls, wrap |-> w] :
     w \in Wraps, ls \in SeqsUpTo(GuardLineVocab, 1, MaxGuardLines)}
ArraySources ==
  {[kind |-> "array", parts |-> es, wrap |-> w] :
     w \in Wraps, es \in SeqsUpTo(GuardElemVocab, 0, MaxElems)}
MalformedSources ==
  {[kind |-> "malformed", parts |-> <<t>>, wrap |-> w] :
     w \in Wraps, t \in GuardMalformed}

SourceText(src) ==
  IF src.kind = "lines" THEN JoinLines(src.parts)
  ELSE IF src.kind = "array" THEN Stringify(src.parts)
  ELSE src.parts[1]

\* A text content; src records how the text was put together.
GuardText(src) ==
  [src |-> src, t |-> "string", v |-> Wrap(src.wrap, SourceText(src))]

\* Contents that are no text: none at all, and an object.
ContentMissing == [t |-> "undefined"]
ContentObject == [t |-> "object"]

\* The answers that are no text.
OtherSources ==
  {[kind |-> k, parts |-> <<>>, wrap |-> "bare"] : k \in {"missing", "object"}}

\* The content of an answer.
GuardContent(src) ==
  IF src.kind = "missing" THEN ContentMissing
  ELSE IF src.kind = "object" THEN ContentObject
  ELSE GuardText(src)

\* !responseContent
Falsy(content) ==
  content.t = "undefined" \/ (content.t = "string" /\ content.v = <<>>)

\* ------------------------------------------------ moderation: moderateMessage
\* The logger calls the model records.
LogJsonFailed == "debug: [Moderation] JSON parse failed, trying line-based parsing"
LogParseError == "error: [Moderation] Parse error"
LogInvalidFormat == "warn: [Moderation] Invalid Ollama response format"
LogError == "error: [Moderation] Error"

\* The message handed to moderateMessage: with a text, with text parts in
\* its content only, with neither, and no message at all.
MessageKinds == {"text", "content", "empty", "undefined"}

\* moderateMessage(message, req) up to its first await: message.text of
\* undefined throws inside the try, an empty contentToModerate returns, and
\* otherwise axios.post is called.
ModerateEnter(target, kind) ==
  /\ mtarget' = target
  /\ mraw' = NotReceived
  /\ mcands' = <<>>
  /\ mupdate' = NoModeration
  /\ IF kind = "undefined"
       THEN mlog' = Append(mlog, LogError) /\ mpc' = "returned"
     ELSE IF kind = "empty"
       THEN mlog' = mlog /\ mpc' = "returned"
     ELSE mlog' = mlog /\ mpc' = "http"
  /\ UNCHANGED modStore

\* A call of moderateMessage on its own.
DirectCall(target, kind) ==
  /\ mpc = "idle"
  /\ apc = "idle"
  /\ ModerateEnter(target, kind)
  /\ UNCHANGED <<formVars, netVars, dialogVars, askVars, reqVars>>

\* axios.post resolves: from responseContent to the saveMessage call.  The
\* Array.isArray test never fails, parseOllamaResponse returns arrays only.
HttpResolves(src) ==
  LET content == GuardContent(src) IN
  /\ mpc = "http"
  /\ mraw' = content
  /\ IF Falsy(content)
       THEN /\ mlog' = Append(mlog, LogInvalidFormat)
            /\ mpc' = "returned"
            /\ UNCHANGED <<mcands, mupdate>>
       ELSE LET r == ParseOllamaResponse(content)
                logged == mlog \o (IF r.jsonError THEN <<LogJsonFailed>> ELSE <<>>)
                               \o (IF r.parseError THEN <<LogParseError>> ELSE <<>>)
            IN /\ mcands' = r.elems
               /\ IF FormatThrows(r.elems)
                    THEN /\ mlog' = Append(logged, LogError)
                         /\ mpc' = "returned"
                         /\ UNCHANGED mupdate
                    ELSE LET categories == FormatCategories(r.elems) IN
                         /\ mupdate' = [categories |-> categories,
                                        flagged |-> Flagged(categories),
                                        present |-> TRUE]
                         /\ mlog' = logged
                         /\ mpc' = "save"
  /\ UNCHANGED <<mtarget, modStore>>
  /\ UNCHANGED <<formVars, netVars, dialogVars, askVars, reqVars>>

\* axios.post rejects, the 345000 ms timeout included: the catch logs.
HttpRejects ==
  /\ mpc = "http"
  /\ mlog' = Append(mlog, LogError)
  /\ mpc' = "returned"
  /\ UNCHANGED <<mtarget, mraw, mcands, mupdate, modStore>>
  /\ UNCHANGED <<formVars, netVars, dialogVars, askVars, reqVars>>

\* saveMessage resolves: the message carries the moderation object.
SaveResolves ==
  /\ mpc = "save"
  /\ modStore' = [modStore EXCEPT ![mtarget] = mupdate]
  /\ mpc' = "returned"
  /\ UNCHANGED <<mtarget, mraw, mcands, mupdate, mlog>>
  /\ UNCHANGED <<formVars, netVars, dialogVars, askVars, reqVars>>

\* saveMessage rejects outside any try: moderateMessage rejects.
SaveRejectsUncaught ==
  /\ mpc = "save"
  /\ mpc' = "raised"
  /\ UNCHANGED <<mtarget, mraw, mcands, mupdate, modStore, mlog>>
  /\ UNCHANGED <<formVars, netVars, dialogVars, askVars, reqVars>>

\* saveMessage rejects: the catch logs.
SaveRejects ==
  /\ mpc = "save"
  /\ mlog' = Append(mlog, LogError)
  /\ mpc' = "returned"
  /\ UNCHANGED <<mtarget, mraw, mcands, mupdate, modStore>>
  /\ UNCHANGED <<formVars, netVars, dialogVars, askVars, reqVars>>

\* No form is submitting.
FormAtRest ==
  /\ form = "AgentQuizForm"
  /\ token = Null
  /\ user = Null
  /\ pc = "idle"
  /\ isLoading = FALSE
  /\ conversationId = Null
  /\ isComplete = FALSE
  /\ locked = FALSE
  /\ reads = 0
  /\ releases = 0
  /\ waited = FALSE
  /\ href = Null
  /\ alerts = <<>>
  /\ parsedLog = <<>>
  /\ wire = <<>>
  /\ chunks = <<>>
  /\ ended = "open"
  /\ written = 0

ModInit == FormAtRest /\ ModerationAtRest /\ ControllerAtRest /\ DialogAtRest

ModNext ==
  \/ \E target \in Targets, kind \in MessageKinds : DirectCall(target, kind)
  \/ \E src \in LineSources : HttpResolves(src)
  \/ \E src \in ArraySources : HttpResolves(src)
  \/ \E src \in MalformedSources : HttpResolves(src)
  \/ \E src \in OtherSources : HttpResolves(src)
  \/ HttpRejects
  \/ SaveResolves
  \/ SaveRejects

\* One call of moderateMessage, over every guard output.
ModSpec == ModInit /\ [][ModNext]_vars

\* ----------------------------------------------------------- AskController
\* The guard outputs of the requests: one for each way moderateMessage
\* goes on from the answer.
AskSources ==
  {[kind |-> "missing", parts |-> <<>>, wrap |-> "bare"],
   [kind |-> "object", parts |-> <<>>, wrap |-> "bare"],
   [kind |-> "lines", parts |-> <<LineS1>>, wrap |-> "bare"],
   [kind |-> "array", parts |-> <<ElemOne>>, wrap |-> "bare"],
   [kind |-> "malformed", parts |-> <<TextOops>>, wrap |-> "json"]}

\* The messages AskController saves: with a text, with text parts only, or
\* with neither.
SavedKinds == {"text", "content", "empty"}

\* req.body.conversationId: none for a new conversation, or a string.
BodyConversationIds == {Undefined, "", "c0"}

\* The request arrives: AskController up to await initializeClient(...);
\* conversationId is taken from req.body.
Request(bodyConversationId) ==
  /\ apc = "idle"
  /\ mpc = "idle"
  /\ apc' = "initializeClient"
  /\ askConversationId' = bodyConversationId
  /\ UNCHANGED <<closed, closeAborts, aborted, requestCompleted, savedByClient,
                 skipSaveUserMessage, finalSent, saved, modCalls, errorCause>>
  /\ UNCHANGED <<userMessage, userMessageId, userMessagePromise,
                 responseMessageId, promptTokens, reqData>>
  /\ UNCHANGED <<formVars, netVars, dialogVars, modVars>>

\* catch (error) { handleAbortError(...) }
HandleAbortError(cause) ==
  /\ errorCause' = cause
  /\ apc' = "done"

\* initializeClient resolves: the abort controller is created, the close
\* handler registered and client.sendMessage called.
InitializeClientResolves ==
  /\ apc = "initializeClient"
  /\ apc' = "sendMessage"
  /\ UNCHANGED <<closed, closeAborts, aborted, requestCompleted, savedByClient,
                 skipSaveUserMessage, finalSent, saved, modCalls, errorCause>>
  /\ UNCHANGED <<formVars, netVars, dialogVars, modVars, reqVars>>

InitializeClientRejects ==
  /\ apc = "initializeClient"
  /\ HandleAbortError("initializeClient")
  /\ UNCHANGED <<closed, closeAborts, aborted, requestCompleted, savedByClient,
                 skipSaveUserMessage, finalSent, saved, modCalls>>
  /\ UNCHANGED <<formVars, netVars, dialogVars, modVars, reqVars>>

\* The close handler registered.
Registered == apc \notin {"idle", "initializeClient"}

\* The close handler with its two early returns dropped: abort() always.
ResCloseAlwaysAborts ==
  /\ Registered
  /\ ~closed
  /\ closed' = TRUE
  /\ closeAborts' = closeAborts + 1
  /\ aborted' = TRUE
  /\ UNCHANGED <<apc, requestCompleted, savedByClient, skipSaveUserMessage,
                 finalSent, saved, modCalls, errorCause>>
  /\ UNCHANGED <<formVars, netVars, dialogVars, modVars, reqVars>>

\* res emits 'close': abort() unless aborted or marked requestCompleted.
ResClose ==
  /\ Registered
  /\ ~closed
  /\ closed' = TRUE
  /\ IF aborted \/ requestCompleted
       THEN UNCHANGED <<closeAborts, aborted>>
       ELSE closeAborts' = closeAborts + 1 /\ aborted' = TRUE
  /\ UNCHANGED <<apc, requestCompleted, savedByClient, skipSaveUserMessage,
                 finalSent, saved, modCalls, errorCause>>
  /\ UNCHANGED <<formVars, netVars, dialogVars, modVars, reqVars>>

\* abortController.requestCompleted is set, by code outside AskController.
MarkRequestCompleted ==
  /\ Registered
  /\ apc # "done"
  /\ ~requestCompleted
  /\ requestCompleted' = TRUE
  /\ UNCHANGED <<apc, closed, closeAborts, aborted, savedByClient,
                 skipSaveUserMessage, finalSent, saved, modCalls, errorCause>>
  /\ UNCHANGED <<formVars, netVars, dialogVars, modVars, reqVars>>

\* abortController.abort() is called by code outside AskController, which
\* holds the controller that createAbortController returned.
AbortElsewhere ==
  /\ Registered
  /\ apc # "done"
  /\ ~aborted
  /\ aborted' = TRUE
  /\ UNCHANGED <<apc, closed, closeAborts, requestCompleted, savedByClient,
                 skipSaveUserMessage, finalSent, saved, modCalls, errorCause>>
  /\ UNCHANGED <<formVars, netVars, dialogVars, modVars, reqVars>>

\* client.sendMessage resolves with the response; the client has or has not
\* saved it, and has or has not set skipSaveUserMessage.
SendMessageResolves(sbc, skip) ==
  /\ apc = "sendMessage"
  /\ apc' = "responsePromise"
  /\ savedByClient' = sbc
  /\ skipSaveUserMessage' = skip
  /\ UNCHANGED <<closed, closeAborts, aborted, requestCompleted, finalSent, saved, modCalls,
                 errorCause>>
  /\ UNCHANGED <<formVars, netVars, dialogVars, modVars, reqVars>>

SendMessageRejects ==
  /\ apc = "sendMessage"
  /\ HandleAbortError("sendMessage")
  /\ UNCHANGED <<closed, closeAborts, aborted, requestCompleted, savedByClient,
                 skipSaveUserMessage, finalSent, saved, modCalls>>
  /\ UNCHANGED <<formVars, netVars, dialogVars, modVars, reqVars>>

\* The keys getReqData knows and the values the client hands over under
\* each; a user message is an object with a messageId.
DataKeys ==
  {"userMessage", "userMessagePromise", "responseMessageId", "promptTokens",
   "conversationId"}
DataValues(key) ==
  IF key = "userMessage" THEN {"userMessage-1", "userMessage-2"}
  ELSE IF key = "userMessagePromise" THEN {"promise-1", "promise-2"}
  ELSE IF key = "responseMessageId" THEN {"response-id-1", "response-id-2"}
  ELSE IF key = "promptTokens" THEN {"7", "9"}
  ELSE {"", "c1", "c2"}

\* data[key].messageId of a user message.
MessageIdOf(message) ==
  IF message = "userMessage-1" THEN "message-id-1" ELSE "message-id-2"

\* The objects with the keys of K.
RECURSIVE DatasOver(_)
DatasOver(K) ==
  IF K = {} THEN {<<>>}
  ELSE LET key == CHOOSE k \in K : TRUE
       IN {(key :> v) @@ rest : v \in DataValues(key), rest \in DatasOver(K \ {key})}

ReqDatas == UNION {DatasOver(K) : K \in SUBSET DataKeys}

\* The value a local has after the loop of getReqData.
Assigned(data, key, old) == IF key \in DOMAIN data THEN data[key] ELSE old

\* Mutant of ConversationIdAfter: the !conversationId test is dropped.
ConversationIdAfterOverwrite(data, old) == Assigned(data, "conversationId", old)

\* } else if (!conversationId && key === 'conversationId') {
ConversationIdAfter(data, old) ==
  IF ~Truthy(old) THEN Assigned(data, "conversationId", old) ELSE old

\* getReqData(data), called by the client while sendMessage runs.
GetReqData(data) ==
  /\ apc = "sendMessage"
  /\ reqData' = data
  /\ userMessage' = Assigned(data, "userMessage", userMessage)
  /\ userMessageId' = IF "userMessage" \in DOMAIN data
                        THEN MessageIdOf(data["userMessage"]) ELSE userMessageId
  /\ userMessagePromise' = Assigned(data, "userMessagePromise", userMessagePromise)
  /\ responseMessageId' = Assigned(data, "responseMessageId", responseMessageId)
  /\ promptTokens' = Assigned(data, "promptTokens", promptTokens)
  /\ askConversationId' = ConversationIdAfter(data, askConversationId)
  /\ UNCHANGED <<formVars, netVars, dialogVars, modVars, askVars>>

\* if (!client.skipSaveUserMessage) { await saveMessage(req, userMessage, ...)
\* and, with the flag set, the end of the try block.
ToUserMessage == apc' = IF skipSaveUserMessage THEN "done" ELSE "saveUser"

\* The response end with the final event left for later: nothing is sent
\* when the promise resolves.
ResponsePromiseResolvesDefersFinal ==
  /\ apc = "responsePromise"
  /\ IF ~aborted /\ ~savedByClient THEN apc' = "saveResponse" ELSE ToUserMessage
  /\ UNCHANGED <<closed, closeAborts, aborted, requestCompleted, savedByClient,
                 skipSaveUserMessage, finalSent, saved, modCalls, errorCause>>
  /\ UNCHANGED <<formVars, netVars, dialogVars, modVars, reqVars>>

\* client.responsePromise resolves: the final event and res.end() unless
\* aborted, then saveMessage for the response unless the client saved it,
\* else on to the user message.
ResponsePromiseResolves ==
  /\ apc = "responsePromise"
  /\ finalSent' = ~aborted
  /\ IF ~aborted /\ ~savedByClient THEN apc' = "saveResponse" ELSE ToUserMessage
  /\ UNCHANGED <<closed, closeAborts, aborted, requestCompleted, savedByClient,
                 skipSaveUserMessage, saved, modCalls, errorCause>>
  /\ UNCHANGED <<formVars, netVars, dialogVars, modVars, reqVars>>

ResponsePromiseRejects ==
  /\ apc = "responsePromise"
  /\ HandleAbortError("responsePromise")
  /\ UNCHANGED <<closed, closeAborts, aborted, requestCompleted, savedByClient,
                 skipSaveUserMessage, finalSent, saved, modCalls>>
  /\ UNCHANGED <<formVars, netVars, dialogVars, modVars, reqVars>>

\* saveMessage for the response resolves: moderateMessage(response, req).
SaveResponseResolves(kind) ==
  /\ apc = "saveResponse"
  /\ saved' = saved \cup {"response"}
  /\ modCalls' = Append(modCalls, "response")
  /\ ModerateEnter("response", kind)
  /\ apc' = "moderateResponse"
  /\ UNCHANGED <<closed, closeAborts, aborted, requestCompleted, savedByClient,
                 skipSaveUserMessage, finalSent, errorCause>>
  /\ UNCHANGED <<formVars, netVars, dialogVars, reqVars>>

SaveResponseRejects ==
  /\ apc = "saveResponse"
  /\ HandleAbortError("saveResponse")
  /\ UNCHANGED <<closed, closeAborts, aborted, requestCompleted, savedByClient,
                 skipSaveUserMessage, finalSent, saved, modCalls>>
  /\ UNCHANGED <<formVars, netVars, dialogVars, modVars, reqVars>>

\* await moderateMessage(response, req) ends: on to the user message, or to
\* the catch if the promise was rejected.
ModerateResponseEnds ==
  /\ apc = "moderateResponse"
  /\ mpc \in {"returned", "raised"}
  /\ mpc' = "idle"
  /\ IF mpc = "raised"
       THEN HandleAbortError("moderation")
       ELSE ToUserMessage /\ UNCHANGED errorCause
  /\ UNCHANGED <<closed, closeAborts, aborted, requestCompleted, savedByClient,
                 skipSaveUserMessage, finalSent, saved, modCalls>>
  /\ UNCHANGED <<mtarget, mraw, mcands, mupdate, modStore, mlog>>
  /\ UNCHANGED <<formVars, netVars, dialogVars, reqVars>>

\* saveMessage for the user message resolves: moderateMessage(userMessage, req).
SaveUserResolves(kind) ==
  /\ apc = "saveUser"
  /\ saved' = saved \cup {"user"}
  /\ modCalls' = Append(modCalls, "user")
  /\ ModerateEnter("user", kind)
  /\ apc' = "moderateUser"
  /\ UNCHANGED <<closed, closeAborts, aborted, requestCompleted, savedByClient,
                 skipSaveUserMessage, finalSent, errorCause>>
  /\ UNCHANGED <<formVars, netVars, dialogVars, reqVars>>

SaveUserRejects ==
  /\ apc = "saveUser"
  /\ HandleAbortError("saveUser")
  /\ UNCHANGED <<closed, closeAborts, aborted, requestCompleted, savedByClient,
                 skipSaveUserMessage, finalSent, saved, modCalls>>
  /\ UNCHANGED <<formVars, netVars, dialogVars, modVars, reqVars>>

\* await moderateMessage(userMessage, req) ends: the end of the try block,
\* or the catch if the promise was rejected.
ModerateUserEnds ==
  /\ apc = "moderateUser"
  /\ mpc \in {"returned", "raised"}
  /\ mpc' = "idle"
  /\ IF mpc = "raised"
       THEN HandleAbortError("moderation")
       ELSE apc' = "done" /\ UNCHANGED errorCause
  /\ UNCHANGED <<closed, closeAborts, aborted, requestCompleted, savedByClient,
                 skipSaveUserMessage, finalSent, saved, modCalls>>
  /\ UNCHANGED <<mtarget, mraw, mcands, mupdate, modStore, mlog>>
  /\ UNCHANGED <<formVars, netVars, dialogVars, reqVars>>

AskInit == FormAtRest /\ ModerationAtRest /\ ControllerAtRest /\ DialogAtRest

AskNext ==
  \/ \E id \in BodyConversationIds : Request(id)
  \/ InitializeClientResolves
  \/ InitializeClientRejects
  \/ ResClose
  \/ MarkRequestCompleted
  \/ AbortElsewhere
  \/ \E sbc \in BOOLEAN, skip \in BOOLEAN : SendMessageResolves(sbc, skip)
  \/ SendMessageRejects
  \/ ResponsePromiseResolves
  \/ ResponsePromiseRejects
  \/ \E kind \in SavedKinds : SaveResponseResolves(kind)
  \/ SaveResponseRejects
  \/ ModerateResponseEnds
  \/ \E kind \in SavedKinds : SaveUserResolves(kind)
  \/ SaveUserRejects
  \/ ModerateUserEnds
  \/ \E src \in AskSources : HttpResolves(src)
  \/ HttpRejects
  \/ SaveResolves
  \/ SaveRejects

\* One request through AskController, with its moderateMessage calls.
AskSpec == AskInit /\ [][AskNext]_vars

ReqNext ==
  \/ \E id \in BodyConversationIds : Request(id)
  \/ InitializeClientResolves
  \/ \E data \in ReqDatas : GetReqData(data)

\* One request while client.sendMessage runs, with the getReqData calls the
\* client makes.
ReqSpec == AskInit /\ [][ReqNext]_vars

\* ------------------------------------------------------------------ claims
RECURSIVE Concat(_)
Concat(cs) == IF cs = <<>> THEN <<>> ELSE Head(cs) \o Concat(Tail(cs))

\* Everything the server wrote to the response.
WholeStream == Concat(chunks) \o wire

\* The scan has ended without a read error (end of stream or completion signal).
ScanEnded == pc \in {"grace", "finished"} /\ releases > 0 /\ ErrRead \notin Range(alerts)

TerminalLines == {<<DataPrefix, "{final:true}">>, <<DataPrefix, "{done:true}">>}

\* A completion signal has gone through the line loop.
TerminalProcessed == \E i \in 1..Len(parsedLog) : parsedLog[i] \in TerminalLines

NonEmptyId(v) == v \notin {Null, Undefined, ""}

\* C1: chunk-boundary independence.  When the scan has read the whole
\* stream to its end, conversationId and the completion flag are the ones
\* of a scan that receives the same stream as one single chunk.
C1_ChunkBoundaryIndependence ==
  (ScanEnded /\ ended = "closed" /\ wire = <<>>) =>
    LET one == ProcessChunk(form, InitialAcc, WholeStream)
    IN /\ conversationId = one.conversationId
       /\ isComplete = TRUE

\* A line that can change the result: the prefix followed by a JSON object.
EffectiveLine(l) == Len(l) = 2 /\ l[1] = DataPrefix /\ l[2] \in Bodies

\* C2: once a terminal event has been parsed, no later event is parsed.
C2_NothingParsedAfterTerminal ==
  \A i, j \in 1..Len(parsedLog) :
    (i < j /\ parsedLog[i] \in TerminalLines) => ~EffectiveLine(parsedLog[j])

\* C3: early termination.  A processed terminal event sets the completion
\* flag, and from then on no reader.read() call is issued.
C3_EarlyTermination ==
  [][ /\ TerminalProcessed' => isComplete'
      /\ TerminalProcessed => reads' = reads ]_vars

\* The scan stopped on a terminal event while the server had written more.
C3_Witness ==
  /\ TerminalProcessed
  /\ pc = "finished"
  /\ wire # <<>>
  /\ reads = Len(chunks)

\* The identifier of the first parsed event with a truthy conversationId.
RECURSIVE FirstTruthyId(_)
FirstTruthyId(log) ==
  IF log = <<>> THEN Null
  ELSE LET l == Head(log) IN
    IF Len(l) = 2 /\ l[1] = DataPrefix /\ l[2] \in {"{cid:abc}", "{cid:xyz}"}
      THEN (IF l[2] = "{cid:abc}" THEN "abc" ELSE "xyz")
      ELSE FirstTruthyId(Tail(log))

\* C4: at the end of a scan conversationId is the identifier of the first
\* event, in arrival order, whose message.conversationId is truthy.
C4_FirstTruthyIdWins ==
  (ScanEnded /\ FirstTruthyId(parsedLog) # Null) =>
    conversationId = FirstTruthyId(parsedLog)

\* C5: first-write-wins.  Once conversationId holds a non-empty identifier
\* no later step of the scan changes it.
C5_FirstWriteWins ==
  [][ NonEmptyId(conversationId) => conversationId' = conversationId ]_vars

\* Two events with different identifiers were parsed and the first one stayed.
C5_Witness ==
  /\ conversationId = "abc"
  /\ \E i, j \in 1..Len(parsedLog) :
       /\ i < j
       /\ parsedLog[i] = <<DataPrefix, "{cid:abc}">>
       /\ parsedLog[j] = <<DataPrefix, "{cid:xyz}">>

\* C6: the reader is locked while the loop runs and releaseLock() has been
\* called exactly once on every path that leaves the loop.
C6_ReleasedExactlyOnce ==
  /\ pc \in {"loop", "reading"} => (locked /\ releases = 0)
  /\ (pc \in {"grace", "finished"} /\ reads > 0) => (~locked /\ releases = 1)
  /\ reads = 0 => (~locked \/ pc = "loop") /\ releases = 0

\* The scan left through a rejected read() and the lock was released.
C6_Witness ==
  /\ pc = "finished"
  /\ alerts = <<ErrRead>>
  /\ Len(chunks) > 0
  /\ releases = 1

\* C7: post-scan policy.  The form navigates or raises the no-id error only
\* after the scan has ended, the lock is released and the wait is over; it
\* navigates iff conversationId is present and non-empty.
C7_PostScanPolicy ==
  /\ (href # Null \/ ErrNoId \in Range(alerts)) =>
       (waited /\ isComplete /\ ~locked /\ releases = 1)
  /\ waited => (href # Null <=> NonEmptyId(conversationId))
  /\ waited => (href = Null <=> alerts = <<ErrNoId>>)
  /\ href # Null => (href = conversationId /\ alerts = <<>>)

\* The form navigated to the conversation found by the scan.
C7_Witness ==
  /\ waited
  /\ href = "abc"
  /\ pc = "finished"

\* C8: a chunk none of whose lines is the prefix followed by a JSON object
\* leaves conversationId and the completion flag unchanged, raises nothing,
\* and the loop goes on to its next iteration.
C8_OnlyDataJsonLinesCount ==
  [][ (chunks' # chunks /\
       \A l \in Range(Split(chunks'[Len(chunks')])) : ~EffectiveLine(l)) =>
        /\ conversationId' = conversationId
        /\ isComplete' = isComplete
        /\ alerts' = alerts
        /\ pc' = "loop" ]_vars

\* A malformed line and a null line went through the loop and the scan goes on.
C8_Witness ==
  /\ \E i \in 1..Len(parsedLog) : parsedLog[i] = MalformedLine
  /\ \E i \in 1..Len(parsedLog) : parsedLog[i] = NullLine
  /\ \A i \in 1..Len(parsedLog) : ~EffectiveLine(parsedLog[i])
  /\ pc = "reading"
  /\ reads = Len(chunks) + 1

\* C9: on the chunks this form has read, the other two forms end with the
\* same conversationId and completion flag and take the same decision.
C9_FormsScanIdentically ==
  ScanEnded =>
    \A g \in Forms :
      LET other == ScanChunks(g, InitialAcc, chunks)
      IN /\ other.conversationId = conversationId
         /\ HasConversationId(g, other.conversationId)
              = HasConversationId(form, conversationId)

\* C10: a rejected read() ends handleSubmit with an alert and without
\* navigation, whatever conversationId holds.
C10_ReadErrorAlerts ==
  [][ /\ (pc = "reading" /\ ended = "errored" /\ pc' # pc) =>
           (pc' = "finished" /\ alerts' = <<ErrRead>> /\ ~waited')
      /\ ErrRead \in Range(alerts') => href' = Null ]_vars

\* A read() was rejected after a conversationId had been found.
C10_Witness ==
  /\ alerts = <<ErrRead>>
  /\ conversationId = "abc"
  /\ href = Null
  /\ pc = "finished"

\* ------------------------------------------------------- claims: moderation
\* The guard has answered with a text that was parsed.
TextParsed == mraw.t = "string" /\ mraw.v # <<>>

\* S1..S13, written out.
CanonicalSCodes ==
  {<<"S", "1">>, <<"S", "2">>, <<"S", "3">>, <<"S", "4">>, <<"S", "5">>,
   <<"S", "6">>, <<"S", "7">>, <<"S", "8">>, <<"S", "9">>, <<"S", "1", "0">>,
   <<"S", "1", "1">>, <<"S", "1", "2">>, <<"S", "1", "3">>}

\* C11: the flagged field of a moderation object is true exactly when its
\* category list holds "unsafe" or one of S1..S13; a list of other tokens
\* only, such as hate and s14, is not flagged.
C11_FlaggedIffUnsafeToken ==
  LET Right(m) ==
        m.present =>
          (m.flagged <=> \E i \in 1..Len(m.categories) :
                           m.categories[i] \in CanonicalSCodes \cup {<<"u", "n", "s", "a", "f", "e">>})
  IN Right(mupdate) /\ \A t \in Targets : Right(modStore[t])

\* A lone S1 was stored, flagged.
C11_Witness ==
  \E t \in Targets :
    /\ modStore[t].present
    /\ modStore[t].categories = <<<<"S", "1">>>>
    /\ modStore[t].flagged

\* The error of the catch was logged after the guard's text had arrived and
\* before a moderation object was built, or parseOllamaResponse logged its
\* own: the text could not be turned into categories.
ParsingRaised ==
  /\ TextParsed
  /\ \/ LogParseError \in Range(mlog)
     \/ LogError \in Range(mlog) /\ ~mupdate.present

\* C13: when an error is raised while the guard's text is turned into
\* categories (fence stripping, JSON parsing, line filtering, the
\* normalization of one candidate), the moderation object of the message
\* has categories exactly <<"error">> and flagged = FALSE.
C13_ErrorFallback ==
  ParsingRaised =>
    /\ mupdate.present
    /\ mupdate.categories = <<StrError>>
    /\ ~mupdate.flagged

\* Garbage: bare prose that is no JSON array, no safe indication and no
\* category code, and the bracketed text [oops].
IsGarbage(src) ==
  \/ /\ src.kind = "lines"
     /\ src.wrap = "bare"
     /\ \A i \in 1..Len(src.parts) : src.parts[i] \in {LineGarbage, LineTheMessage}
  \/ /\ src.kind = "malformed"
     /\ src.wrap = "bare"
     /\ src.parts[1] = TextOops

KeptGarbageLine == <<"b", "l", "a", "h", " ", "b", "l", "a", "h">>

\* What the code makes of garbage: its lines, less the one that holds
\* 'the message'.
RECURSIVE GarbageKept(_)
GarbageKept(parts) ==
  IF parts = <<>> THEN <<>>
  ELSE (IF Head(parts) = LineGarbage THEN <<KeptGarbageLine>>
        ELSE IF Head(parts) = TextOops THEN <<<<"[", "o", "o", "p", "s", "]">>>>
        ELSE <<>>) \o GarbageKept(Tail(parts))

CanonicalToken(e) ==
  IF e = ElemS1 \/ e = ElemS01 THEN <<"S", "1">>
  ELSE IF e = ElemUnsafePadded THEN <<"u", "n", "s", "a", "f", "e">>
  ELSE e.v

\* C15: of a bare JSON array of strings, each element is normalized to the
\* token of the spec: s01 and S1 to S1 (no leading zero), " Unsafe " to
\* unsafe, every other one to its trimmed lower-case text; a list with a
\* code from 1 to 13 is flagged.
C15_SCodesCanonical ==
  (/\ TextParsed
   /\ mraw.src.kind = "array"
   /\ mraw.src.wrap = "bare"
   /\ mupdate.present) =>
    /\ mupdate.categories =
         [i \in 1..Len(mraw.src.parts) |-> CanonicalToken(mraw.src.parts[i])]
    /\ (\E i \in 1..Len(mraw.src.parts) : mraw.src.parts[i] \in {ElemS1, ElemS01})
         => mupdate.flagged

\* C16: a JSON array inside a plain fence (three backticks, no json tag) is
\* parsed like the bare array: the candidates are its elements.
C16_PlainFenceLikeBare ==
  (/\ TextParsed
   /\ mraw.src.kind = "array"
   /\ mraw.src.wrap = "plain") =>
    mcands = mraw.src.parts

\* C17: a cleaned text in brackets that is JSON gives its elements, in order,
\* as candidates; one that is no JSON raises nothing, and the candidates are
\* those of the line-based parsing of the same text (the text itself, for
\* the one-line texts of GuardMalformed).
C17_JsonArrayPath ==
  (TextParsed /\ mraw.src.wrap \in {"bare", "json"}) =>
    /\ mraw.src.kind = "array" =>
         /\ mcands = mraw.src.parts
         /\ LogJsonFailed \notin Range(mlog)
    /\ mraw.src.kind = "malformed" =>
         /\ mcands = <<StringElem(mraw.src.parts[1])>>
         /\ LogJsonFailed \in Range(mlog)
         /\ LogParseError \notin Range(mlog)
         /\ mupdate.present
         /\ mupdate.categories = <<mraw.src.parts[1]>>
         /\ mpc = "save" => LogError \notin Range(mlog)

\* A text in brackets that is no JSON was stored as one line.
C17_Witness ==
  /\ TextParsed
  /\ mraw.src.kind = "malformed"
  /\ mraw.src.wrap = "json"
  /\ LogJsonFailed \in Range(mlog)
  /\ modStore[mtarget].present

\* The line a plain fence leaves in the cleaned text.
FenceLine == <<Tick, Tick, Tick>>

\* Each line of the vocabulary trimmed and lower-cased, written out.
LowerLine(line) ==
  IF line = LineSafeSentence THEN <<"s", "a", "f", "e", ".">>
  ELSE IF line = LineS1 THEN <<"s", "1">>
  ELSE IF line = LineS5Padded THEN <<"s", "5">>
  ELSE IF line = LineAnalysis THEN
    <<"a", "n", "a", "l", "y", "s", "i", "s", ":", " ", "n", "o", " ", "h", "a", "r", "m", "f", "u", "l", " ", "c", "o", "n", "t", "e", "n", "t", " ", "d", "e", "t", "e", "c", "t", "e", "d", ".">>
  ELSE IF line = LineTheMessage THEN
    <<"t", "h", "e", " ", "m", "e", "s", "s", "a", "g", "e", " ", "i", "s", " ", "b", "a", "d">>
  ELSE line

\* The lines the first filter drops, those that hold 'safe', and those the
\* last filter drops.
DroppedFirst(line) == line \in {LineEmpty, LineAnalysis}
HoldsSafe(line) == line \in {LineSafeSentence, LineUnsafe}
DroppedLast(line) == line = LineTheMessage

KeptFirst(line) == ~DroppedFirst(line)
KeptLast(line) == ~DroppedLast(line)

\* The result the spec describes for the line-based parsing.
LineBasedExpected(src) ==
  LET raw == (IF src.wrap = "plain" THEN <<FenceLine>> ELSE <<>>) \o src.parts
      kept == SelectSeq(raw, KeptFirst)
      last == SelectSeq(kept, KeptLast)
  IN IF \A i \in 1..Len(kept) : HoldsSafe(kept[i])
       THEN <<StringElem(StrSafe)>>
       ELSE [i \in 1..Len(last) |-> StringElem(LowerLine(last[i]))]

\* C18: the line-based parsing splits the cleaned text on line breaks, trims
\* and lower-cases each line, drops the empty lines and those holding
\* 'no harmful content', 'analysis:' or 'categories:'; if every line left
\* holds 'safe' (none left included, and a line 'unsafe' holds it too) the
\* candidates are exactly <<"safe">>, otherwise they are the lines left
\* without those holding 'the message' or 'this content'.
C18_LineBasedFallback ==
  (TextParsed /\ mraw.src.kind = "lines") => mcands = LineBasedExpected(mraw.src)

\* The guard answered 'Analysis: no harmful content detected.' and 'Safe.'.
C18_Witness ==
  /\ TextParsed
  /\ mraw.src.kind = "lines"
  /\ mraw.src.parts = <<LineAnalysis, LineSafeSentence>>
  /\ mcands = <<StringElem(StrSafe)>>
  /\ mpc = "save"

\* Parser and normalizer on a list of tokens handed over as a JSON array.
Renormalized(categories) ==
  LET again == ParseOllamaResponse([t |-> "string",
                                    v |-> Stringify(AsElems(categories))])
  IN IF FormatThrows(again.elems) THEN <<StrError, StrError>>
     ELSE FormatCategories(again.elems)

\* C19: parsing and normalizing the JSON array of a moderation object's own
\* categories gives the same list and the same flagged.
C19_Idempotent ==
  mupdate.present =>
    /\ Renormalized(mupdate.categories) = mupdate.categories
    /\ Flagged(Renormalized(mupdate.categories)) = mupdate.flagged

\* The list S1, safe was normalized and the call has returned.
C19_Witness ==
  /\ mupdate.present
  /\ mupdate.categories = <<<<"S", "1">>, <<"s", "a", "f", "e">>>>
  /\ mpc = "returned"

\* ---------------------------------------------------- claims: AskController
\* C12: moderateMessage never rejects, whatever the guard answers and
\* whether the HTTP call or the moderation update fails: handleAbortError is
\* never entered for moderation, and once the response was moderated the
\* user message is still saved (unless skipSaveUserMessage is set or that
\* save itself fails).
C12_ModerationNeverCrashesSavePath ==
  /\ mpc # "raised"
  /\ errorCause # "moderation"
  /\ (apc = "done" /\ "response" \in Range(modCalls) /\ ~skipSaveUserMessage) =>
       ("user" \in saved \/ errorCause = "saveUser")

\* Both moderations failed and were logged, both messages were saved, and
\* the request ended outside the catch.
C12_Witness ==
  /\ apc = "done"
  /\ errorCause = Null
  /\ saved = {"response", "user"}
  /\ modCalls = <<"response", "user">>
  /\ mlog = <<LogError, LogError>>

\* C20: in a finished request whose user message was moderated, the
\* response was moderated too, whatever the state of the response.
C20_BothModerated ==
  (apc = "done" /\ "user" \in Range(modCalls)) => "response" \in Range(modCalls)

\* ------------------------------------------- claims: the line equal to unsafe
\* The lines of the guard's text the first filter keeps.
FilteredLines(text) ==
  SelectSeq(MapTrimLower(SplitLines(CleanResponse(text))), KeepLine)

MaxEvents == 5

\* tools[number]['id']
Tools == {"agentquiz", "lesson", "quiz"}

\* {activeTool === 'agentquiz' && <AgentQuizForm onBack={handleBack} />} and
\* the two lines after it: the tests, each with the form it renders.
FormTests ==
  {<<"agentquiz", "AgentQuizForm">>, <<"lesson", "LessonPlanForm">>,
   <<"quiz", "QuizForm">>}

\* The tool grid is rendered: the dialog is open and activeTool === null.
GridShown == isOpen /\ activeTool = Null

\* The forms that are rendered: the content of the open dialog, in the
\* branch for activeTool !== null.
ShownForms ==
  IF isOpen /\ activeTool # Null
    THEN {t[2] : t \in {u \in FormTests : activeTool = u[1]}}
    ELSE {}

Handled(event) ==
  /\ Len(events) < MaxEvents
  /\ events' = Append(events, event)

\* handleClose that forgets the tool.
HandleCloseKeepsTool ==
  /\ isOpen' = FALSE
  /\ activeTool' = activeTool

HandleClose ==
  /\ isOpen' = FALSE
  /\ activeTool' = Null

HandleBack ==
  /\ activeTool' = Null
  /\ isOpen' = isOpen

\* onClick of the MenuButton: setIsOpen(true).
MenuButtonClick ==
  /\ Handled("open")
  /\ isOpen' = TRUE
  /\ UNCHANGED <<activeTool, isSmallScreen, navToggles>>
  /\ UNCHANGED <<formVars, netVars, serverVars>>

\* onClick of a button of the tool grid.
ToolClick(tool) ==
  /\ GridShown
  /\ Handled(tool)
  /\ activeTool' = tool
  /\ navToggles' = IF isSmallScreen THEN navToggles + 1 ELSE navToggles
  /\ UNCHANGED <<isOpen, isSmallScreen>>
  /\ UNCHANGED <<formVars, netVars, serverVars>>

\* onClick of the back button of the form that is shown.
BackClick ==
  /\ ShownForms # {}
  /\ Handled("back")
  /\ HandleBack
  /\ UNCHANGED <<isSmallScreen, navToggles>>
  /\ UNCHANGED <<formVars, netVars, serverVars>>

\* onOpenChange of the open dialog (Escape, a click outside, its close
\* button).
DialogOpenChange ==
  /\ isOpen
  /\ Handled("close")
  /\ HandleClose
  /\ UNCHANGED <<isSmallScreen, navToggles>>
  /\ UNCHANGED <<formVars, netVars, serverVars>>

DialogInit ==
  /\ FormAtRest /\ ModerationAtRest /\ ControllerAtRest
  /\ isOpen = FALSE
  /\ activeTool = Null
  /\ isSmallScreen \in BOOLEAN
  /\ navToggles = 0
  /\ events = <<>>

DialogNext ==
  \/ MenuButtonClick
  \/ \E tool \in Tools : ToolClick(tool)
  \/ BackClick
  \/ DialogOpenChange

\* The TeacherTools menu entry and its dialog.
DialogSpec == DialogInit /\ [][DialogNext]_vars

\* ------------------------------------- claims: AskController, abort and data
\* C21: the final event is sent, and the response ended, only while no
\* moderateMessage call of the request has started: no step taken after a
\* moderation call has begun, the steps of moderateMessage and the return
\* from it included, changes what was delivered; and the response is
\* moderated only in a request whose final event was sent.
C21_DeliveredBeforeModeration ==
  /\ [][finalSent' # finalSent =>
          /\ modCalls = <<>> /\ modCalls' = <<>>
          /\ mpc = "idle" /\ mpc' = "idle"]_vars
  /\ []("response" \in Range(modCalls) => finalSent)

\* The final event was sent, then the response was found unsafe and its
\* moderation stored, and the request ended outside the catch.
C21_Witness ==
  /\ finalSent
  /\ apc = "done"
  /\ errorCause = Null
  /\ modCalls = <<"response", "user">>
  /\ modStore["response"].present
  /\ modStore["response"].flagged

\* AskController is past `await client.responsePromise`.
PastResponsePromise ==
  \/ apc \in {"saveResponse", "moderateResponse", "saveUser", "moderateUser"}
  \/ apc = "done" /\ errorCause \notin {"initializeClient", "sendMessage", "responsePromise"}

\* What holds once the response promise has resolved with the signal set:
\* the response is not saved and not moderated, and a request that ended
\* outside the catch has saved and moderated the user message, and nothing
\* else, unless skipSaveUserMessage is set.
AfterAbortedResolve ==
  (PastResponsePromise /\ ~finalSent) =>
    /\ apc \notin {"saveResponse", "moderateResponse"}
    /\ "response" \notin saved
    /\ "response" \notin Range(modCalls)
    /\ (apc = "done" /\ errorCause = Null) =>
         IF skipSaveUserMessage
           THEN saved = {} /\ modCalls = <<>>
           ELSE saved = {"user"} /\ modCalls = <<"user">>

\* C26: the close handler calls abort() exactly when the signal is not yet
\* aborted and the controller is not marked requestCompleted.  When the
\* response promise resolves with the signal aborted, no final event is
\* sent and AskController goes on to save the user message, or to the end
\* with skipSaveUserMessage set; the response is then neither saved nor
\* moderated, and the user message is moderated once its save resolves.
C26_AbortInterleaving ==
  [][/\ closeAborts' # closeAborts =>
          (~closed /\ closed' /\ ~aborted /\ ~requestCompleted)
     /\ (~closed /\ closed' /\ ~aborted /\ ~requestCompleted) =>
          (closeAborts' = closeAborts + 1 /\ aborted')
     /\ (apc = "responsePromise" /\ apc' # apc /\ errorCause' = errorCause /\ aborted) =>
          /\ ~finalSent'
          /\ apc' = IF skipSaveUserMessage THEN "done" ELSE "saveUser"
     /\ AfterAbortedResolve']_vars

\* The client closed the connection while the model answered: the handler
\* aborted, no final event was sent, and the user message alone was saved
\* and moderated.
C26_Witness ==
  /\ apc = "done"
  /\ errorCause = Null
  /\ closed /\ closeAborts = 1 /\ aborted
  /\ ~finalSent
  /\ saved = {"user"}
  /\ modCalls = <<"user">>

\* The local of AskController that getReqData assigns for a key.
Local(key) ==
  IF key = "userMessage" THEN userMessage
  ELSE IF key = "userMessagePromise" THEN userMessagePromise
  ELSE IF key = "responseMessageId" THEN responseMessageId
  ELSE IF key = "promptTokens" THEN promptTokens
  ELSE askConversationId

\* The four locals hold what the last call carried for them.
CarriedOverwritten ==
  \A key \in DOMAIN reqData \ {"conversationId"} : Local(key) = reqData[key]

\* C27: a conversationId that is not empty, from the request body or from an
\* earlier getReqData call, is never changed; an empty one takes the
\* conversationId a call carries; and userMessage, userMessagePromise,
\* responseMessageId and promptTokens hold what the last call carried.
C27_ConversationIdFirstWriteWins ==
  [][/\ Truthy(askConversationId) => askConversationId' = askConversationId
     /\ (/\ ~Truthy(askConversationId)
         /\ reqData' # reqData
         /\ "conversationId" \in DOMAIN reqData') =>
          askConversationId' = reqData'["conversationId"]
     /\ CarriedOverwritten']_vars

\* The last call carried the conversationId c2 and a second response id:
\* the id was taken, the conversationId of the body was kept.
C27_Witness ==
  /\ "conversationId" \in DOMAIN reqData
  /\ "responseMessageId" \in DOMAIN reqData
  /\ reqData["conversationId"] = "c2"
  /\ reqData["responseMessageId"] = "response-id-2"
  /\ askConversationId = "c0"
  /\ responseMessageId = "response-id-2"

\* ------------------------------------------------ claims: the form's outcome
\* handleSubmit is between its first await and its end.
Submitting == pc \in {"fetch", "errorText", "loop", "reading", "grace"}

\* C24: isLoading is true while handleSubmit runs and false once it has
\* finished, whichever way it finished.
C24_LoadingWhileSubmitting ==
  /\ Submitting => isLoading
  /\ pc = "finished" => ~isLoading

\* The scan ended without a conversationId: the error was alerted and the
\* form is no longer loading.
C24_Witness ==
  /\ pc = "finished"
  /\ waited
  /\ alerts = <<ErrNoId>>
  /\ ~isLoading

\* fetch was called.
Requested ==
  \/ Submitting
  \/ pc = "finished" /\ alerts \notin {<<ErrToken>>, <<ErrUser>>}

\* C25: a finished submission has navigated to the conversation or has
\* alerted one error, never both and never neither, and nothing is alerted
\* or navigated to before the end; fetch is called only with a non-empty
\* token and a user id that is a string; the reader is taken only from an
\* OK response.
C25_ExactlyOneOutcome ==
  /\ pc = "finished" =>
       \/ href # Null /\ alerts = <<>> /\ href = conversationId /\ NonEmptyId(conversationId)
       \/ href = Null /\ Len(alerts) = 1
  /\ pc # "finished" => (href = Null /\ alerts = <<>>)
  /\ Requested => (token = "tok" /\ user = "user-1")
  /\ (pc = "errorText" \/ alerts = <<ErrResponse>>) =>
       (~locked /\ reads = 0 /\ releases = 0)

\* A non-OK response ended in the alert, without a reader.
C25_Witness ==
  /\ pc = "finished"
  /\ alerts = <<ErrResponse>>
  /\ href = Null
  /\ releases = 0

\* ------------------------------------------------------- claims: the dialog
\* The event handled by the step.
LastEvent == events[Len(events)]

\* C28: after any sequence of open, tool selection, back and close, a tool
\* is active only while the dialog is open; at most one form is shown, and
\* a shown form is the one of activeTool; close resets isOpen and
\* activeTool; back resets activeTool and leaves the dialog open.
C28_DialogState ==
  /\ [](activeTool # Null => isOpen)
  /\ [](/\ Cardinality(ShownForms) <= 1
        /\ \A f \in ShownForms : <<activeTool, f>> \in FormTests
        /\ (isOpen /\ activeTool # Null) => ShownForms # {})
  /\ [][/\ (events' # events /\ LastEvent' = "close") =>
              (~isOpen' /\ activeTool' = Null)
        /\ (events' # events /\ LastEvent' = "back") =>
              (activeTool' = Null /\ isOpen' /\ isOpen)]_vars

\* The dialog was closed with the lesson planner shown and opened again:
\* the tool grid is back.
C28_Witness ==
  /\ events = <<"open", "lesson", "close", "open">>
  /\ isOpen
  /\ activeTool = Null

\* ---------------------------------------------- claims: the end of the scan
\* The read loop waits on a stream that is open and has shown no terminal
\* event to the line loop.
Waiting == pc \in {"loop", "reading"} /\ ended = "open" /\ ~isComplete

\* C22: the read loop ends only on end of stream, a read error or a
\* processed terminal event; once isComplete is set no read() is issued, and
\* outside the loop body conversationId keeps its value; every submission
\* finishes unless the stream stays open for ever without a terminal event
\* reaching the line loop, and then the loop never ends.
C22_ScanTermination ==
  /\ []((pc = "grace" \/ ScanEnded) => (ended # "open" \/ TerminalProcessed))
  /\ [][/\ isComplete => reads' = reads
        /\ (pc # "reading" /\ pc # "fetch") => conversationId' = conversationId]_vars
  /\ (<>[]Waiting \/ (pc = "fetch" ~> pc = "finished"))

\* The stream ended after the event with the conversationId: the scan kept
\* the id and the form navigated.
C22_Witness ==
  /\ pc = "finished"
  /\ ended = "closed"
  /\ ~TerminalProcessed
  /\ conversationId = "abc"
  /\ href = "abc"
  /\ reads = Len(chunks) + 1

====
